---- MODULE Spec2Model ----
(***************************************************************************)
(* Bunny.net origin protection: a state-machine model of the two programs  *)
(* of the repository,                                                      *)
(*   bop.py      the iptables variant (chain BOP_HTTPS, one ACCEPT rule    *)
(*               per edge address, a final DROP, a jump from INPUT), and   *)
(*   bop-nft.py  the nftables variant (table inet bop, sets bunny_v4 and   *)
(*               bunny_v6, chain gate).                                    *)
(* One run of a program is a sequence of steps; every step is one command  *)
(* handed to the packet filter (or the fetch, or the snapshot write), so   *)
(* that the firewall states a packet can meet during a run are states of   *)
(* the model.                                                              *)
(***************************************************************************)
EXTENDS Integers, Sequences, FiniteSets, TLC

(* ------------------------------ bounds -------------------------------- *)

\* Number of distinct IPv4 edge addresses the remote list is drawn from.
MaxAddr == 3

\* Longest list handed to sync as wanted_ips when sync is examined alone.
MaxWanted == 3

\* Longest address list handed to render_set_update when the set update is
\* examined alone: more than two chunks.
MaxList == 1030

\* Most candidate strings in one response body when the fetch is examined
\* alone.
MaxItems == 2

(* ------------------------- program constants -------------------------- *)

\* render_set_update: elems[i:i+512]
ChunkSize == 512

\* DEFAULT_CHAIN of bop.py
DEFAULT_CHAIN == "BOP_HTTPS"

\* urls of bop.py's fetch_bunny_ips, EDGE_URLS of bop-nft.py
EDGE_URLS ==
    << "https://bunnycdn.com/api/system/edgeserverlist",
       "https://api.bunny.net/system/edgeserverlist" >>

(* ----------------------------- addresses ------------------------------ *)

\* An address is the tuple of its numeric parts: four octets for IPv4,
\* eight hextets for IPv6. 10.0.0.9 and 10.0.0.10 are the first two, so that
\* numeric and textual order differ.
V4 == { <<10, 0, 0, 8 + i>> : i \in 1..MaxAddr }

\* 2001:db8::1
V6 == { <<8193, 3512, 0, 0, 0, 0, 0, 1>> }

Addrs == V4 \cup V6

\* Source 0.0.0.0/0: a rule without -s.
ANY == <<0, 0, 0, 0>>

\* ::ffff:10.0.0.9, an IPv6 address written with a dotted quad: six hextets
\* and four octets.
Mapped == <<0, 0, 0, 0, 0, 65535, 10, 0, 0, 9>>

\* A string that is no address ("n/a").
Junk == <<-1>>

\* The candidate strings of a response body.
Tokens == Addrs \cup {Mapped, Junk}

\* ipaddress.ip_address(s) does not raise ValueError.
IsValid(s) == s # Junk

\* ip.version == 4
IsV4(a) == Len(a) = 4

\* "." in ip
HasDot(a) == IsV4(a) \/ a = Mapped

\* str(ip): an IPv6 address comes out in hextets only.
Canon(a) ==
    IF a = Mapped
    THEN SubSeq(a, 1, 6) \o <<a[7] * 256 + a[8], a[9] * 256 + a[10]>>
    ELSE a

Range(s) == { s[i] : i \in 1..Len(s) }

\* All orders in which a Python set can be iterated.
Orders(S) == { s \in [1..Cardinality(S) -> S] : Range(s) = S }

RECURSIVE TupleLess(_, _)
\* Python's tuple comparison on tuples of integers.
TupleLess(a, b) ==
    IF a = <<>> THEN b # <<>>
    ELSE IF b = <<>> THEN FALSE
    ELSE IF a[1] # b[1] THEN a[1] < b[1]
    ELSE TupleLess(Tail(a), Tail(b))

\* sorted with the order reversed: descending by octets.
sorted_descending(S) ==
    CHOOSE s \in Orders(S) : \A i \in 1..(Len(s) - 1) : TupleLess(s[i + 1], s[i])

RECURSIVE sorted(_)
\* sorted(S, key=lambda s: tuple(int(x) for x in s.split(".")))
sorted(S) ==
    IF S = {} THEN <<>>
    ELSE LET m == CHOOSE x \in S : \A y \in S : x = y \/ TupleLess(x, y)
         IN  <<m>> \o sorted(S \ {m})

RECURSIVE Dedupe(_)
\* list(dict.fromkeys(seq)): first occurrences, in order.
Dedupe(s) ==
    IF s = <<>> THEN <<>>
    ELSE LET front == Dedupe(SubSeq(s, 1, Len(s) - 1))
             x     == s[Len(s)]
         IN  IF x \in Range(front) THEN front ELSE Append(front, x)

(* ------------------------------- state -------------------------------- *)

VARIABLES
    prog,      \* which program this host runs: "ipt" (bop.py) or "nft" (bop-nft.py)
    ipt,       \* iptables: [exists, rules, jumps] of the managed chain
    nft,       \* nftables: [table, chain, v4, v6] of table inet bop
    snapshot,  \* the addresses listed in --list-file (empty: no file or no line)
    run        \* per process: the position and locals of its run of main()

vars == <<prog, ipt, nft, snapshot, run>>

Procs == {1, 2}

\* The scheduler starts one run at a time.
Sequential == {1}

(* ------------------------- iptables, as used -------------------------- *)

AcceptRule(ip) == [s |-> ip, j |-> "ACCEPT"]
DropRule == [s |-> ANY, j |-> "DROP"]
JumpRule == [s |-> ANY, j |-> DEFAULT_CHAIN]
NoRule == [s |-> ANY, j |-> ""]

Cmd(op, chain, rule) == [op |-> op, chain |-> chain, rule |-> rule, rc |-> 0]

IptEmpty == [exists |-> FALSE, rules |-> <<>>, jumps |-> 0]

\* The rules of s without the first occurrence of r.
RemoveFirst(s, r) ==
    LET i == CHOOSE k \in 1..Len(s) : s[k] = r /\ \A m \in 1..(k - 1) : s[m] # r
    IN  SubSeq(s, 1, i - 1) \o SubSeq(s, i + 1, Len(s))

Result(rc, st, out) == [rc |-> rc, st |-> st, out |-> out]

\* What the iptables binary does with one command on state st: exit status,
\* new state, and the listed rules (for -S).
IptExec(st, c) ==
    CASE c.op = "-S" ->
           IF st.exists THEN Result(0, st, st.rules) ELSE Result(1, st, <<>>)
      [] c.op = "-N" ->
           IF st.exists THEN Result(1, st, <<>>)
           ELSE Result(0, [st EXCEPT !.exists = TRUE, !.rules = <<>>], <<>>)
      [] c.op = "-C" /\ c.chain = "INPUT" ->
           Result(IF st.jumps > 0 THEN 0 ELSE 1, st, <<>>)
      [] c.op = "-C" /\ c.chain # "INPUT" ->
           Result(IF st.exists /\ c.rule \in Range(st.rules) THEN 0 ELSE 1, st, <<>>)
      [] c.op = "-I" /\ c.chain = "INPUT" ->
           IF st.exists THEN Result(0, [st EXCEPT !.jumps = @ + 1], <<>>)
           ELSE Result(1, st, <<>>)
      [] c.op = "-I" /\ c.chain # "INPUT" ->
           IF st.exists THEN Result(0, [st EXCEPT !.rules = <<c.rule>> \o @], <<>>)
           ELSE Result(1, st, <<>>)
      [] c.op = "-D" ->
           IF st.exists /\ c.rule \in Range(st.rules)
           THEN Result(0, [st EXCEPT !.rules = RemoveFirst(@, c.rule)], <<>>)
           ELSE Result(1, st, <<>>)
      [] c.op = "-A" ->
           IF st.exists THEN Result(0, [st EXCEPT !.rules = Append(@, c.rule)], <<>>)
           ELSE Result(1, st, <<>>)

\* Commands that change the rule set; the others only query it.
Mutating(c) == c.op \in {"-N", "-I", "-D", "-A"}

(* ------------------------- nftables, as used -------------------------- *)

NftEmpty == [table |-> FALSE, chain |-> <<>>, v4 |-> {}, v6 |-> {}]

Stmt(op, arg, elems) == [op |-> op, arg |-> arg, elems |-> elems]

\* One statement of an nft script on state st; ok is FALSE when the
\* statement names a table that does not exist.
NftStmt(st, s) ==
    CASE s.op = "table" -> [ok |-> TRUE, st |-> [st EXCEPT !.table = TRUE]]
      [] ~st.table -> [ok |-> FALSE, st |-> st]
      [] s.op = "flush chain" -> [ok |-> TRUE, st |-> [st EXCEPT !.chain = <<>>]]
      [] s.op = "add rule" -> [ok |-> TRUE, st |-> [st EXCEPT !.chain = Append(@, s.arg)]]
      [] s.op = "flush set" /\ s.arg = "bunny_v4" ->
           [ok |-> TRUE, st |-> [st EXCEPT !.v4 = {}]]
      [] s.op = "flush set" /\ s.arg = "bunny_v6" ->
           [ok |-> TRUE, st |-> [st EXCEPT !.v6 = {}]]
      [] s.op = "add element" /\ s.arg = "bunny_v4" ->
           [ok |-> TRUE, st |-> [st EXCEPT !.v4 = @ \cup Range(s.elems)]]
      [] s.op = "add element" /\ s.arg = "bunny_v6" ->
           [ok |-> TRUE, st |-> [st EXCEPT !.v6 = @ \cup Range(s.elems)]]

RECURSIVE NftFold(_, _)
NftFold(acc, script) ==
    IF script = <<>> \/ ~acc.ok THEN acc
    ELSE NftFold(NftStmt(acc.st, Head(script)), Tail(script))

\* `nft -f file`: the script is one transaction, applied whole or not at all.
NftExec(st, script) ==
    LET end == NftFold([ok |-> TRUE, st |-> st], script)
    IN  IF end.ok THEN Result(0, end.st, <<>>) ELSE Result(1, st, <<>>)

(* ------------------------------ run state ----------------------------- *)

IdleRun ==
    [pc |-> "idle", dry |-> FALSE, ipv6 |-> "block", body |-> {},
     v4 |-> <<>>, v6 |-> <<>>, prev |-> {}, add |-> <<>>, remove |-> <<>>,
     i |-> 1, lines |-> <<>>, exit |-> -1, cmds |-> <<>>, out |-> <<>>,
     err |-> "", wrote |-> FALSE, wfail |-> FALSE,
     prevOk |-> FALSE, prevBody |-> {}, prevIpv6 |-> "block",
     prevDry |-> FALSE, prevOut |-> <<>>, tries |-> <<>>]

InFlight(r) == r.pc \notin {"idle", "done"}

(* ------------------------------ Shell --------------------------------- *)

\* Shell.run: the outcomes of handing command c to iptables. Under --dry-run
\* the command is printed and a successful, silent process is simulated.
\* Otherwise the binary acts; a command that changes the rule set can also
\* fail for a reason of the host, and then changes nothing.
ShellRun(r, c) ==
    IF r.dry THEN { Result(0, ipt, <<>>) }
    ELSE { IptExec(ipt, c) }
         \cup (IF Mutating(c) THEN { Result(1, ipt, <<>>) } ELSE {})

\* The record of a command and its exit status: printed under --dry-run,
\* executed otherwise.
Log(r, c, rc) ==
    IF r.dry THEN [r EXCEPT !.out = Append(@, [c EXCEPT !.rc = rc])]
    ELSE [r EXCEPT !.cmds = Append(@, [c EXCEPT !.rc = rc])]

\* An exception nobody catches (or sys.exit with a message): exit status 1.
\* why names the step that failed.
Raise(r, why) == [r EXCEPT !.pc = "done", !.exit = 1, !.err = why]

Goto(r, l) == [r EXCEPT !.pc = l]

\* One call of Shell.ipt at position `here`: on exit status 0 the run goes
\* on as onZero, on a nonzero status as onNonzero, unless check is set, and
\* then RuntimeError ends the run.
IptStep(p, here, c, check, onZero, onNonzero) ==
    /\ prog = "ipt"
    /\ run[p].pc = here
    /\ \E res \in ShellRun(run[p], c) :
          /\ ipt' = res.st
          /\ run' = [run EXCEPT ![p] =
                Log(IF res.rc # 0 /\ check THEN Raise(run[p], "backend")
                    ELSE IF res.rc = 0 THEN onZero ELSE onNonzero, c, res.rc)]
    /\ UNCHANGED <<prog, nft, snapshot>>

(* ------------------------------ bop.py -------------------------------- *)

\* fetch_bunny_ips of bop.py on the winning body, given as the set of valid
\* addresses in it: the IPv4 ones, sorted by octets.
fetch_bunny_ips(body) == sorted({ a \in body : HasDot(a) })

read_local_ips == snapshot

\* The file after write_local_ips(path, ips): sorted(set(ips)), one per line.
write_local_ips(ips) == Range(ips)

\* sync, lines 240-243: the lists of addresses to add and to remove. prev is
\* a set, so the order of remove is the set's iteration order.

\* sync_wanted without dict.fromkeys: duplicates stay.
sync_wanted_raw(wanted_ips) == wanted_ips

sync_wanted(wanted_ips) == Dedupe(wanted_ips)

\* sync_add that finds nothing to add.
sync_add_none(wanted, prev) == <<>>

\* sync_add with the membership test lost: every wanted address is added.
sync_add_all(wanted, prev) == wanted

sync_add(wanted, prev) == SelectSeq(wanted, LAMBDA ip : ip \notin prev)

\* sync_remove with the membership test lost: every previous address goes.
sync_remove_all(wanted, prev) == Orders(prev)

sync_remove(wanted, prev) == Orders({ ip \in prev : ip \notin Range(wanted) })

\* Where sync continues after ensure_chain_and_jump, after the add loop and
\* after the remove loop.
AfterRemove(r) == [r EXCEPT !.pc = "strip_list", !.i = 1]

AfterAdd(r) ==
    IF r.remove # <<>> THEN [r EXCEPT !.pc = "remove_ip", !.i = 1]
    ELSE AfterRemove(r)

AfterJump(r) ==
    IF r.add # <<>> THEN [r EXCEPT !.pc = "add_ip", !.i = 1]
    ELSE AfterAdd(r)

NextAdd(r) ==
    IF r.i < Len(r.add) THEN [r EXCEPT !.pc = "add_ip", !.i = @ + 1]
    ELSE AfterAdd(r)

NextRemove(r) ==
    IF r.i < Len(r.remove) THEN [r EXCEPT !.i = @ + 1]
    ELSE AfterRemove(r)

\* main, lines 281-288: fetch; a failed fetch or an empty IPv4 list exits.
main_fetch(p) ==
    /\ prog = "ipt"
    /\ run[p].pc = "fetch"
    /\ \E body \in SUBSET Addrs :
          run' = [run EXCEPT ![p] =
              IF body = {} THEN Raise(@, "fetch")
              ELSE IF fetch_bunny_ips(body) = <<>>
              THEN Raise([@ EXCEPT !.body = body], "empty")
              ELSE [@ EXCEPT !.body = body, !.v4 = fetch_bunny_ips(body),
                             !.pc = "sync"]]
    /\ UNCHANGED <<prog, ipt, nft, snapshot>>

\* main line 291 and sync lines 240-248: read the snapshot, compute the diff.
sync_diff(p) ==
    /\ prog = "ipt"
    /\ run[p].pc = "sync"
    /\ LET wanted == sync_wanted(run[p].v4)
           prev   == read_local_ips
       IN  \E rem \in sync_remove(wanted, prev) :
              run' = [run EXCEPT ![p] =
                  [@ EXCEPT !.prev = prev, !.add = sync_add(wanted, prev),
                            !.remove = rem, !.pc = "chain_exists"]]
    /\ UNCHANGED <<prog, ipt, nft, snapshot>>

\* ensure_chain_and_jump, line 201: iptables -S CHAIN
ipt_chain_exists(p) ==
    IptStep(p, "chain_exists", Cmd("-S", DEFAULT_CHAIN, NoRule), FALSE,
            Goto(run[p], "jump_check"), Goto(run[p], "new_chain"))

\* ensure_chain_and_jump, line 202: iptables -N CHAIN
new_chain(p) ==
    IptStep(p, "new_chain", Cmd("-N", DEFAULT_CHAIN, NoRule), TRUE,
            Goto(run[p], "jump_check"), run[p])

\* ensure_chain_and_jump, line 207: iptables -C INPUT ... -j CHAIN
jump_check(p) ==
    IptStep(p, "jump_check", Cmd("-C", "INPUT", JumpRule), FALSE,
            AfterJump(run[p]), Goto(run[p], "jump_insert"))

\* ensure_chain_and_jump, line 209: iptables -I INPUT 1 ... -j CHAIN
jump_insert(p) ==
    IptStep(p, "jump_insert", Cmd("-I", "INPUT", JumpRule), TRUE,
            AfterJump(run[p]), run[p])

\* add_ip, line 232: rule_for_ip_exists
rule_for_ip_exists(p) ==
    /\ run[p].i <= Len(run[p].add)
    /\ IptStep(p, "add_ip",
               Cmd("-C", DEFAULT_CHAIN, AcceptRule(run[p].add[run[p].i])), FALSE,
               NextAdd(run[p]), Goto(run[p], "add_insert"))

\* add_ip, line 233: iptables -I CHAIN 1 -s ip -j ACCEPT
add_ip(p) ==
    /\ run[p].i <= Len(run[p].add)
    /\ IptStep(p, "add_insert",
               Cmd("-I", DEFAULT_CHAIN, AcceptRule(run[p].add[run[p].i])), TRUE,
               NextAdd(run[p]), run[p])

\* remove_ip, line 237: iptables -D CHAIN -s ip -j ACCEPT, check=False
remove_ip(p) ==
    /\ run[p].i <= Len(run[p].remove)
    /\ IptStep(p, "remove_ip",
               Cmd("-D", DEFAULT_CHAIN, AcceptRule(run[p].remove[run[p].i])), FALSE,
               NextRemove(run[p]), NextRemove(run[p]))

\* drop_lines with the regex never matching: no DROP line is found.
drop_lines_none(out) == <<>>

\* The lines of `iptables -S CHAIN` that _strip_trailing_drops deletes.
drop_lines(out) == SelectSeq(out, LAMBDA rule : rule.j = "DROP")

\* _strip_trailing_drops, line 213: iptables -S CHAIN, check=True
strip_list(p) ==
    /\ prog = "ipt"
    /\ run[p].pc = "strip_list"
    /\ LET c == Cmd("-S", DEFAULT_CHAIN, NoRule)
       IN  \E res \in ShellRun(run[p], c) :
              /\ ipt' = res.st
              /\ run' = [run EXCEPT ![p] =
                    Log(IF res.rc # 0 THEN Raise(@, "backend")
                        ELSE IF drop_lines(res.out) = <<>>
                             THEN Goto(@, "append_drop")
                             ELSE [@ EXCEPT !.lines = drop_lines(res.out),
                                            !.i = 1, !.pc = "strip_del"], c, res.rc)]
    /\ UNCHANGED <<prog, nft, snapshot>>

NextLine(r) ==
    IF r.i < Len(r.lines) THEN [r EXCEPT !.i = @ + 1]
    ELSE Goto(r, "append_drop")

\* _strip_trailing_drops, line 220: iptables -D CHAIN <parts>
strip_del(p) ==
    /\ run[p].i <= Len(run[p].lines)
    /\ IptStep(p, "strip_del",
               Cmd("-D", DEFAULT_CHAIN, run[p].lines[run[p].i]), TRUE,
               NextLine(run[p]), run[p])

\* ensure_final_drop, line 225: iptables -A CHAIN -j DROP
ensure_final_drop(p) ==
    IptStep(p, "append_drop", Cmd("-A", DEFAULT_CHAIN, DropRule), TRUE,
            Goto(run[p], "persist"), run[p])

\* main, lines 299-304: under --dry-run a message; otherwise write_local_ips,
\* which replaces the file or raises and leaves it.
main_persist(p) ==
    /\ prog = "ipt"
    /\ run[p].pc = "persist"
    /\ IF run[p].dry
       THEN /\ run' = [run EXCEPT ![p] = [@ EXCEPT !.pc = "done", !.exit = 0]]
            /\ UNCHANGED snapshot
       ELSE \/ /\ snapshot' = write_local_ips(run[p].v4)
               /\ run' = [run EXCEPT ![p] =
                     [@ EXCEPT !.pc = "done", !.exit = 0, !.wrote = TRUE]]
            \/ /\ run' = [run EXCEPT ![p] = Raise([@ EXCEPT !.wfail = TRUE], "persist")]
               /\ UNCHANGED snapshot
    /\ UNCHANGED <<prog, ipt, nft>>

(* ----------------------------- bop-nft.py ----------------------------- *)

\* fetch_bunny_ips of bop-nft.py on the winning body: (ipv4_list, ipv6_list).
fetch_bunny_ips_nft(body) ==
    <<sorted({ a \in body : IsV4(a) }), sorted({ a \in body : ~IsV4(a) })>>

\* render_bootstrap without the test of ipv6_mode: the IPv6 accept rule is
\* always added.
render_bootstrap_accept6(ipv6_mode) ==
    << Stmt("table", "bop", <<>>),
       Stmt("flush chain", "gate", <<>>),
       Stmt("add rule", "accept4", <<>>),
       Stmt("add rule", "accept6", <<>>),
       Stmt("add rule", "drop", <<>>) >>

\* render_bootstrap: the table with its sets and chain, then the chain's
\* rules rebuilt. The lines are joined by a newline, as in render_set_update
\* (in the source file the "\n" of line 173 is a raw line break inside the
\* string literal, which Python rejects; the model takes the join meant).
render_bootstrap(ipv6_mode) ==
    << Stmt("table", "bop", <<>>),
       Stmt("flush chain", "gate", <<>>),
       Stmt("add rule", "accept4", <<>>) >>
    \o (IF ipv6_mode = "allow" THEN << Stmt("add rule", "accept6", <<>>) >> ELSE <<>>)
    \o << Stmt("add rule", "drop", <<>>) >>

\* Chunks without the slicing: one statement with all the elements.
Chunks_whole(set, elems, n) ==
    IF elems = <<>> THEN <<>> ELSE << Stmt("add element", set, elems) >>

RECURSIVE Chunks(_, _, _)
\* for i in range(0, len(elems), n): add element <set> { elems[i:i+n] }
Chunks(set, elems, n) ==
    IF elems = <<>> THEN <<>>
    ELSE IF Len(elems) <= n THEN << Stmt("add element", set, elems) >>
    ELSE << Stmt("add element", set, SubSeq(elems, 1, n)) >>
         \o Chunks(set, SubSeq(elems, n + 1, Len(elems)), n)

\* render_set_update without the flush of bunny_v4: elements are only added.
render_set_update_noflush(v4, v6, ipv6_mode) ==
    Chunks("bunny_v4", v4, ChunkSize)
    \o << Stmt("flush set", "bunny_v6", <<>>) >>
    \o (IF ipv6_mode = "allow" THEN Chunks("bunny_v6", v6, ChunkSize) ELSE <<>>)

\* render_set_update: flush and refill both sets.
render_set_update(v4, v6, ipv6_mode) ==
    << Stmt("flush set", "bunny_v4", <<>>) >>
    \o Chunks("bunny_v4", v4, ChunkSize)
    \o << Stmt("flush set", "bunny_v6", <<>>) >>
    \o (IF ipv6_mode = "allow" THEN Chunks("bunny_v6", v6, ChunkSize) ELSE <<>>)

NftCmd(script) == [op |-> "nft -f", script |-> script, rc |-> 0]

\* nft_apply: under --dry-run the script is printed; otherwise `nft -f` runs
\* it, and can fail for a reason of the host, changing nothing.
nft_apply(r, script) ==
    IF r.dry THEN { Result(0, nft, <<>>) }
    ELSE { NftExec(nft, script), Result(1, nft, <<>>) }

NftStep(p, here, script, onZero) ==
    /\ prog = "nft"
    /\ run[p].pc = here
    /\ \E res \in nft_apply(run[p], script) :
          /\ nft' = res.st
          /\ run' = [run EXCEPT ![p] =
                Log(IF res.rc # 0 THEN Raise(run[p], "backend") ELSE onZero,
                    NftCmd(script), res.rc)]
    /\ UNCHANGED <<prog, ipt, snapshot>>

\* main, lines 234-235
nft_bootstrap(p) ==
    NftStep(p, "bootstrap", render_bootstrap(run[p].ipv6), Goto(run[p], "fetch"))

\* main, line 238: a failed fetch is an uncaught RuntimeError.
nft_fetch(p) ==
    /\ prog = "nft"
    /\ run[p].pc = "fetch"
    /\ \E body \in SUBSET Addrs :
          run' = [run EXCEPT ![p] =
              IF body = {} THEN Raise(@, "fetch")
              ELSE [@ EXCEPT !.body = body,
                             !.v4 = fetch_bunny_ips_nft(body)[1],
                             !.v6 = fetch_bunny_ips_nft(body)[2],
                             !.pc = "persist"]]
    /\ UNCHANGED <<prog, ipt, nft, snapshot>>

\* main, lines 241-247: open(list_file, "w") and write v4 + v6; any error is
\* swallowed. A failed attempt leaves the file as it was (it could not be
\* opened) or with the lines written before the error.
nft_persist(p) ==
    /\ prog = "nft"
    /\ run[p].pc = "persist"
    /\ LET lines == run[p].v4 \o run[p].v6
       IN  \/ \E k \in 0..Len(lines) :
                 /\ snapshot' = Range(SubSeq(lines, 1, k))
                 /\ run' = [run EXCEPT ![p] =
                       [@ EXCEPT !.pc = "set_update", !.wrote = TRUE,
                                 !.wfail = k < Len(lines)]]
           \/ /\ UNCHANGED snapshot
              /\ run' = [run EXCEPT ![p] =
                    [@ EXCEPT !.pc = "set_update", !.wfail = TRUE]]
    /\ UNCHANGED <<prog, ipt, nft>>

\* main, lines 250-253
nft_set_update(p) ==
    NftStep(p, "set_update",
            render_set_update(run[p].v4, run[p].v6, run[p].ipv6),
            [run[p] EXCEPT !.pc = "done", !.exit = 0])

(* --------------------------- runs and the host ------------------------ *)

\* A finished run that was not a dry run and exited with status 0.
Succeeded(r) == r.pc = "done" /\ r.exit = 0 /\ ~r.dry

\* A finished --dry-run run that exited with status 0.
DryDone(r) == r.pc = "done" /\ r.exit = 0 /\ r.dry

\* A command as printed or logged, without its exit status.
Shown(c) == [c EXCEPT !.rc = 0]

\* The firewall-mutating commands among log, in order.
Mutations(log) ==
    LET sel == SelectSeq(log, LAMBDA c : IF prog = "ipt" THEN Mutating(c)
                                         ELSE c.op = "nft -f")
    IN  [k \in 1..Len(sel) |-> Shown(sel[k])]

\* main() starts: the arguments are chosen. The new run notes whether the
\* run before succeeded, and on which list; with noteDry a real run also
\* notes what a dry run before it printed.
Begin(p, noteDry) ==
    /\ ~InFlight(run[p])
    /\ \E dry \in BOOLEAN, mode \in (IF prog = "nft" THEN {"allow", "block"} ELSE {"block"}) :
          LET before == run[p]
              noted  == noteDry /\ DryDone(before) /\ ~dry
              keep   == Succeeded(before) \/ noted
          IN  run' = [run EXCEPT ![p] =
                  [IdleRun EXCEPT
                      !.pc = IF prog = "ipt" THEN "fetch" ELSE "bootstrap",
                      !.dry = dry, !.ipv6 = mode,
                      !.prevOk = Succeeded(before),
                      !.prevBody = IF keep THEN before.body ELSE {},
                      !.prevIpv6 = IF keep THEN before.ipv6 ELSE "block",
                      !.prevDry = noted,
                      !.prevOut = IF noted THEN Mutations(before.out) ELSE <<>>]]
    /\ UNCHANGED <<prog, ipt, nft, snapshot>>

\* The scheduler (or the operator) starts main().
Start(p) == Begin(p, FALSE)

\* The operator starts main(), as after a rehearsal with --dry-run.
StartAfterDryRun(p) == Begin(p, TRUE)

\* The host restarts between runs: the packet filter's rules are not
\* persistent, the snapshot file is.
Reboot ==
    /\ \A p \in Procs : ~InFlight(run[p])
    /\ ipt # IptEmpty \/ nft # NftEmpty
    /\ ipt' = IptEmpty
    /\ nft' = NftEmpty
    /\ run' = [p \in Procs |-> IdleRun]
    /\ UNCHANGED <<prog, snapshot>>

Init ==
    /\ prog \in {"ipt", "nft"}
    /\ ipt = IptEmpty
    /\ nft = NftEmpty
    /\ snapshot = {}
    /\ run = [p \in Procs |-> IdleRun]

\* The steps of bop.py's main() from the diff on: sync, then the snapshot.
Reconcile(p) ==
    \/ sync_diff(p)
    \/ ipt_chain_exists(p)
    \/ new_chain(p)
    \/ jump_check(p)
    \/ jump_insert(p)
    \/ rule_for_ip_exists(p)
    \/ add_ip(p)
    \/ remove_ip(p)
    \/ strip_list(p)
    \/ strip_del(p)
    \/ ensure_final_drop(p)
    \/ main_persist(p)

\* The steps of main() after its start.
Run(p) ==
    \/ main_fetch(p)
    \/ Reconcile(p)
    \/ nft_bootstrap(p)
    \/ nft_fetch(p)
    \/ nft_persist(p)
    \/ nft_set_update(p)

Step(p) == Start(p) \/ Run(p)

Next == (\E p \in Sequential : Step(p)) \/ Reboot

Spec == Init /\ [][Next]_vars

\* The complete contents of the snapshot file that run r is to write.
NewSnapshot(r) ==
    IF prog = "ipt" THEN write_local_ips(r.v4) ELSE Range(r.v4 \o r.v6)

\* The process is killed (or the host loses power) while main() persists
\* the snapshot. bop.py's write_local_ips fills a temporary file and then
\* os.replace()s it over the list file: the kill falls before or after the
\* rename. bop-nft.py open()s the list file itself for writing, which
\* truncates it, and writes line after line: the kill falls before the
\* open, or leaves the lines that had reached the file.
kill_while_persisting(p) ==
    /\ run[p].pc = "persist"
    /\ \/ /\ UNCHANGED snapshot
          /\ run' = [run EXCEPT ![p] = Raise(@, "killed")]
       \/ /\ prog = "ipt" /\ ~run[p].dry
          /\ snapshot' = write_local_ips(run[p].v4)
          /\ run' = [run EXCEPT ![p] = Raise([@ EXCEPT !.wrote = TRUE], "killed")]
       \/ /\ prog = "nft"
          /\ \E k \in 0..Len(run[p].v4 \o run[p].v6) :
                snapshot' = Range(SubSeq(run[p].v4 \o run[p].v6, 1, k))
          /\ run' = [run EXCEPT ![p] = Raise([@ EXCEPT !.wrote = TRUE], "killed")]
    /\ UNCHANGED <<prog, ipt, nft>>

\* All lists of at most n elements of S.
ListsUpTo(S, n) == UNION { [1..k -> S] : k \in 0..n }

\* sync() called on its own: any list of addresses as wanted_ips, with
\* repetitions and in any order, any set of lines as previous_ips.
InitSync ==
    /\ prog = "ipt"
    /\ ipt = IptEmpty
    /\ nft = NftEmpty
    /\ snapshot \in SUBSET Addrs
    /\ \E wanted_ips \in ListsUpTo(Addrs, MaxWanted) :
          run = [p \in Procs |->
                    IF p \in Sequential
                    THEN [IdleRun EXCEPT !.pc = "sync", !.v4 = wanted_ips]
                    ELSE IdleRun]

NextSync == \E p \in Sequential : sync_diff(p)

SpecSync == InitSync /\ [][NextSync]_vars

(* ------------------------ the fetch, URL by URL ---------------------- *)

\* What a response body is: "list" a JSON array of strings, "items" and
\* "data" a JSON object with the strings under that key, "cutlist" a JSON
\* array cut short, "xml" a well-formed document with the strings as element
\* texts, "html" markup that is not well-formed XML, "text" plain text with
\* the strings separated by blanks, "empty" nothing.
Shapes == {"list", "items", "data", "cutlist", "xml", "html", "text", "empty"}

\* urlopen raised (no route, timeout, HTTP error).
NoResponse == [ok |-> FALSE, ctype |-> "", shape |-> "empty", items |-> <<>>]

\* The Content-Type names json, or xml, or neither.
Responses ==
    {NoResponse} \cup
    { r \in [ok : {TRUE}, ctype : {"json", "xml", ""}, shape : Shapes,
              items : ListsUpTo(Tokens, MaxItems)] :
        r.shape = "empty" => r.items = <<>> }

\* text[:1]
FirstChar(resp) ==
    CASE resp.shape \in {"list", "cutlist"} -> "["
      [] resp.shape \in {"items", "data"} -> "{"
      [] resp.shape \in {"xml", "html"} -> "<"
      [] resp.shape = "text" -> "e"
      [] resp.shape = "empty" -> ""

\* The strings the JSON branch hands on, or "raises" for json.loads failing.
\* bop.py reads a list or the key "items"; bop-nft.py also "data" and "ips".
JsonBranch(pg, resp) ==
    CASE resp.shape \in {"list", "items"} -> [raises |-> FALSE, seq |-> resp.items]
      [] resp.shape = "data" ->
           [raises |-> FALSE, seq |-> IF pg = "nft" THEN resp.items ELSE <<>>]
      [] OTHER -> [raises |-> TRUE, seq |-> <<>>]

\* The element texts, or "raises" for ET.fromstring failing.
XmlBranch(resp) ==
    IF resp.shape = "xml" THEN [raises |-> FALSE, seq |-> resp.items]
    ELSE [raises |-> TRUE, seq |-> <<>>]

\* The matches of the fallback regex in the text that are candidates: a
\* string of hex digits and colons, or a dotted quad. In ::ffff:10.0.0.9 the
\* regex matches "ffff:10", which is no address.
RegexBranch(resp) == SelectSeq(resp.items, LAMBDA s : s \in Addrs)

\* try_add of bop.py: the valid strings, as they are.
try_add(seq) == { s \in Range(seq) : IsValid(s) }

\* add_candidate of bop-nft.py over seq: the valid strings, as str(ip).
add_candidate(seq) == { Canon(s) : s \in { x \in Range(seq) : IsValid(x) } }

\* One body through the three strategies: which ran, in order, and the
\* valid addresses each one added.
Parse(pg, resp) ==
    LET add(seq)  == IF pg = "ipt" THEN try_add(seq) ELSE add_candidate(seq)
        asJson    == \/ resp.ctype = "json"
                     \/ FirstChar(resp) \in
                          (IF pg = "ipt" THEN {"[", "{", "]", ""} ELSE {"[", "{", ""})
        json      == IF asJson THEN add(JsonBranch(pg, resp).seq) ELSE {}
        asXml     == json = {} /\ (resp.ctype = "xml" \/ FirstChar(resp) = "<")
        xml       == IF asXml THEN add(XmlBranch(resp).seq) ELSE {}
        asText    == json \cup xml = {} /\ (pg = "nft" \/ resp.shape # "empty")
        regex     == IF asText THEN add(RegexBranch(resp)) ELSE {}
    IN  [tried |-> (IF asJson THEN <<"json">> ELSE <<>>)
                   \o (IF asXml THEN <<"xml">> ELSE <<>>)
                   \o (IF asText THEN <<"regex">> ELSE <<>>),
         json |-> json, xml |-> xml, regex |-> regex,
         jsonRaised |-> asJson /\ JsonBranch(pg, resp).raises,
         xmlRaised |-> asXml /\ XmlBranch(resp).raises]

\* bop.py line 161: int(x) raises ValueError on a piece of a dotted string
\* that holds a colon.
SortRaises(ips) == \E ip \in ips : HasDot(ip) /\ ~IsV4(ip)

\* The record of one pass of the loop over the URLs: the URL, whether it
\* answered, the strategies that ran and what they found, and whether the
\* pass ended in the except clause.
Attempt(pg, k, resp) ==
    LET ps    == Parse(pg, resp)
        found == IF resp.ok THEN ps.json \cup ps.xml \cup ps.regex ELSE {}
    IN  [url |-> EDGE_URLS[k], ok |-> resp.ok,
         tried |-> IF resp.ok THEN ps.tried ELSE <<>>,
         json |-> IF resp.ok THEN ps.json ELSE {},
         xml |-> IF resp.ok THEN ps.xml ELSE {},
         regex |-> IF resp.ok THEN ps.regex ELSE {},
         parseRaised |-> resp.ok /\ (ps.jsonRaised \/ ps.xmlRaised),
         scan |-> IF resp.ok THEN { s \in Range(RegexBranch(resp)) : IsValid(s) } ELSE {},
         found |-> found,
         raised |-> ~resp.ok \/ (pg = "ipt" /\ SortRaises(found))]

\* One pass of `for url in urls` of fetch_bunny_ips, and with a return what
\* main does with the value: bop.py exits on an empty list, bop-nft.py goes
\* on to write the snapshot.
fetch_url(p) ==
    /\ run[p].pc = "fetch"
    /\ Len(run[p].tries) < Len(EDGE_URLS)
    /\ \E resp \in Responses :
          LET t == Attempt(prog, Len(run[p].tries) + 1, resp)
              r == [run[p] EXCEPT !.tries = Append(@, t)]
          IN  run' = [run EXCEPT ![p] =
                  IF t.raised \/ t.found = {} THEN r
                  ELSE IF prog = "nft"
                  THEN [r EXCEPT !.body = t.found,
                                 !.v4 = fetch_bunny_ips_nft(t.found)[1],
                                 !.v6 = fetch_bunny_ips_nft(t.found)[2],
                                 !.pc = "persist"]
                  ELSE IF fetch_bunny_ips(t.found) = <<>>
                  THEN Raise([r EXCEPT !.body = t.found], "empty")
                  ELSE [r EXCEPT !.body = t.found,
                                 !.v4 = fetch_bunny_ips(t.found), !.pc = "sync"]]
    /\ UNCHANGED <<prog, ipt, nft, snapshot>>

\* The loop is over and nothing was returned: RuntimeError, which ends main.
fetch_exhausted(p) ==
    /\ run[p].pc = "fetch"
    /\ Len(run[p].tries) = Len(EDGE_URLS)
    /\ run' = [run EXCEPT ![p] = Raise(@, "fetch")]
    /\ UNCHANGED <<prog, ipt, nft, snapshot>>

\* A run at the call of fetch_bunny_ips: bop.py has done nothing yet,
\* bop-nft.py has applied its bootstrap script.
InitFetch ==
    /\ prog \in {"ipt", "nft"}
    /\ ipt = IptEmpty
    /\ nft = IF prog = "nft" THEN NftExec(NftEmpty, render_bootstrap("block")).st
             ELSE NftEmpty
    /\ snapshot = {}
    /\ run = [p \in Procs |->
                IF p \in Sequential
                THEN [IdleRun EXCEPT
                         !.pc = "fetch",
                         !.cmds = IF prog = "nft"
                                  THEN <<NftCmd(render_bootstrap("block"))>>
                                  ELSE <<>>]
                ELSE IdleRun]

NextFetch == \E p \in Sequential : fetch_url(p) \/ fetch_exhausted(p)

SpecFetch == InitFetch /\ [][NextFetch]_vars

(* ------------------------ the set update, alone --------------------- *)

\* The k-th address of a long list: 10.0.x.y, 2001:db8::k.
Nth4(k) == <<10, 0, k \div 256, k % 256>>
Nth6(k) == <<8193, 3512, 0, 0, 0, 0, 0, k>>

\* A run of bop-nft.py at the set update, with a fetched list of any length:
\* the bootstrap script is applied and the snapshot is written.
InitUpdate ==
    /\ prog = "nft"
    /\ ipt = IptEmpty
    /\ \E n \in 0..MaxList, mode \in {"allow", "block"} : \E m \in {0, n} :
          LET v4 == [k \in 1..n |-> Nth4(k)]
              v6 == [k \in 1..m |-> Nth6(k)]
          IN  /\ nft = NftExec(NftEmpty, render_bootstrap(mode)).st
              /\ snapshot = Range(v4 \o v6)
              /\ run = [p \in Procs |->
                          IF p \in Sequential
                          THEN [IdleRun EXCEPT
                                   !.pc = "set_update", !.ipv6 = mode,
                                   !.v4 = v4, !.v6 = v6,
                                   !.body = Range(v4 \o v6), !.wrote = TRUE,
                                   !.cmds = <<NftCmd(render_bootstrap(mode))>>]
                          ELSE IdleRun]

NextUpdate == \E p \in Sequential : nft_set_update(p)

SpecUpdate == InitUpdate /\ [][NextUpdate]_vars

(* --------------------------- overlapping runs ----------------------- *)

Reverse(s) == [k \in 1..Len(s) |-> s[Len(s) + 1 - k]]

\* The chain as a first successful run on list L leaves it: each address
\* inserted at position 1 in the order of the list, then the DROP appended.
BuiltChain(L) ==
    [exists |-> TRUE,
     rules  |-> [k \in 1..Cardinality(L) |-> AcceptRule(Reverse(sorted(L))[k])]
                \o <<DropRule>>,
     jumps  |-> 1]

\* Two runs of bop.py, started without a lock on the same host (a fresh one,
\* or one that an earlier run on some list has set up, or that one after a
\* restart), have both fetched the same list.
InitOverlap ==
    /\ prog = "ipt"
    /\ nft = NftEmpty
    /\ snapshot \in SUBSET V4
    /\ ipt \in {IptEmpty, BuiltChain(snapshot)}
    /\ \E body \in (SUBSET V4) \ {{}} :
          run = [p \in Procs |->
                    [IdleRun EXCEPT !.pc = "sync", !.body = body,
                                    !.v4 = fetch_bunny_ips(body)]]

\* The two runs interleave command by command.
NextOverlap == \E p \in Procs : Reconcile(p)

SpecOverlap == InitOverlap /\ [][NextOverlap]_vars

\* The same host, where a run can be killed while it persists.
NextKilled == Next \/ (\E p \in Sequential : kill_while_persisting(p))

SpecKilled == Init /\ [][NextKilled]_vars

\* The same host, with every run noting the dry run before it.
NextRehearsed == (\E p \in Sequential : StartAfterDryRun(p) \/ Run(p)) \/ Reboot

SpecRehearsed == Init /\ [][NextRehearsed]_vars

(* ------------------------- reading the state ------------------------- *)

HasAccept(ip) == ipt.exists /\ AcceptRule(ip) \in Range(ipt.rules)

\* The drop rule for the protected port(s) is in force: traffic to the port
\* reaches the managed chain, whose last rule drops.
DropInForce ==
    IF prog = "ipt"
    THEN /\ ipt.exists /\ ipt.jumps > 0
         /\ ipt.rules # <<>> /\ ipt.rules[Len(ipt.rules)] = DropRule
    ELSE /\ nft.table
         /\ nft.chain # <<>> /\ nft.chain[Len(nft.chain)] = "drop"

IsAcceptInsert(c) == c.op = "-I" /\ c.rule.j = "ACCEPT"
IsAcceptDelete(c) == c.op = "-D" /\ c.rule.j = "ACCEPT"

\* An nft script with a statement on a set's contents.
HasSetStmt(c) ==
    \E k \in 1..Len(c.script) : c.script[k].op \in {"flush set", "add element"}

\* A command that changes the allow-set contents.
SetMutation(c) ==
    IF prog = "ipt" THEN IsAcceptInsert(c) \/ IsAcceptDelete(c) ELSE HasSetStmt(c)

\* A command that changes the firewall (not a query).
FirewallMutation(c) == IF prog = "ipt" THEN Mutating(c) ELSE c.op = "nft -f"

\* The address-set apply step of the run has completed without error:
\* sync's last command (bop.py), the set-update script (bop-nft.py).
ApplyDone(r) ==
    \E k \in 1..Len(r.cmds) :
        /\ r.cmds[k].rc = 0
        /\ IF prog = "ipt" THEN r.cmds[k].op = "-A" ELSE HasSetStmt(r.cmds[k])

\* The run follows a successful run and has fetched the same list.
SecondRun(r) == r.prevOk /\ r.body = r.prevBody

\* The addresses that are in the previous snapshot and in the fetched list.
Kept(r) == r.prev \cap Range(r.v4)

(* ------------------------------- claims ------------------------------- *)

\* C1: bop.py: after any non-dry-run run that exits successfully, the chain
\* holds an ACCEPT rule for every address of the fetched IPv4 list, whatever
\* the chain and the snapshot were before the run.
C1_AcceptForEveryFetched ==
    \A p \in Procs :
        (prog = "ipt" /\ Succeeded(run[p]))
            => \A ip \in Range(run[p].v4) : HasAccept(ip)

\* C2: bop.py: after any non-dry-run run that exits successfully, the chain
\* holds no ACCEPT rule for an address outside the fetched list, also when an
\* earlier run stopped after inserting rules and before writing the snapshot.
C2_NoAcceptOutsideFetched ==
    \A p \in Procs :
        (prog = "ipt" /\ Succeeded(run[p]))
            => \A k \in 1..Len(ipt.rules) :
                  ipt.rules[k].j = "ACCEPT" => ipt.rules[k].s \in Range(run[p].v4)

\* C3: failure isolation, both programs: in a run whose fetch fails, no
\* firewall command has been issued and the snapshot file was not written.
C3_FetchFailureIsolated ==
    \A p \in Procs :
        run[p].err = "fetch" => run[p].cmds = <<>> /\ ~run[p].wrote

\* C4: both programs: the snapshot file is overwritten only after the
\* address-set apply step of the same run has completed without error, and a
\* run whose apply step fails has not written it.
C4_SnapshotOnlyAfterApply ==
    \A p \in Procs :
        ~run[p].dry =>
            /\ run[p].wrote => ApplyDone(run[p])
            /\ run[p].err = "backend" => ~run[p].wrote

\* C5: no unprotected window, both programs: once the terminal drop rule is
\* in force, every step of a run leaves it in force.
C5_NoUnprotectedWindow ==
    [][ ((\E p \in Procs : InFlight(run[p])) /\ DropInForce) => DropInForce' ]_vars

\* C6: safety ordering in bop.py's sync: every ACCEPT insertion of a run is
\* issued before its first ACCEPT deletion, and no step of a run removes the
\* ACCEPT rule of an address that is in the previous snapshot and in the
\* fetched list.
C6_AddBeforeRemove ==
    /\ [](\A p \in Procs : prog = "ipt" =>
            \A i, k \in 1..Len(run[p].cmds) :
                (IsAcceptDelete(run[p].cmds[i]) /\ IsAcceptInsert(run[p].cmds[k]))
                    => k < i)
    /\ [][ \A p \in Procs : \A ip \in Kept(run[p]) :
             (InFlight(run[p]) /\ HasAccept(ip)) => HasAccept(ip)' ]_vars

\* C6 witness: a run with additions and removals has inserted and then
\* deleted an ACCEPT rule, and a kept address has its rule.
C6_Witness ==
    \E p \in Procs :
        /\ prog = "ipt" /\ run[p].add # <<>> /\ run[p].remove # <<>>
        /\ \E ip \in Kept(run[p]) : HasAccept(ip)
        /\ \E i, k \in 1..Len(run[p].cmds) :
              /\ i < k
              /\ IsAcceptInsert(run[p].cmds[i]) /\ run[p].cmds[i].rc = 0
              /\ IsAcceptDelete(run[p].cmds[k]) /\ run[p].cmds[k].rc = 0

\* The elements a script adds to set name.
ElemsOf(script, name) ==
    UNION { Range(script[k].elems) :
              k \in { n \in 1..Len(script) :
                        script[n].op = "add element" /\ script[n].arg = name } }

\* C7: bop-nft.py: after any non-dry-run run that exits successfully,
\* bunny_v4 holds exactly the fetched IPv4 addresses; the flush and all the
\* add-element statements are one script, and during a run bunny_v4 only ever
\* changes to the fetched list (never to a flushed, unfilled set).
C7_SetReplacedAtomically ==
    /\ [](\A p \in Procs : prog = "nft" =>
            /\ Succeeded(run[p]) => nft.v4 = Range(run[p].v4)
            /\ \A k \in 1..Len(run[p].cmds) :
                  HasSetStmt(run[p].cmds[k]) =>
                      /\ run[p].cmds[k].script[1] = Stmt("flush set", "bunny_v4", <<>>)
                      /\ ElemsOf(run[p].cmds[k].script, "bunny_v4") = Range(run[p].v4))
    /\ [][ \A p \in Procs :
             (prog = "nft" /\ InFlight(run[p]) /\ nft.v4' # nft.v4)
                 => nft.v4' = Range(run[p].v4) ]_vars

\* C7 witness: a successful run has replaced a set that held an address the
\* fetched list does not have.
C7_Witness ==
    \E p \in Procs :
        /\ prog = "nft" /\ Succeeded(run[p]) /\ run[p].prevOk
        /\ run[p].v4 # <<>>
        /\ \E ip \in run[p].prevBody : IsV4(ip) /\ ip \notin Range(run[p].v4)
        /\ nft.v4 = Range(run[p].v4)

\* C8: idempotence, both programs: a run that follows a successful run on
\* an unchanged remote list computes no additions and no removals and issues
\* no command that changes the allow-set contents.
C8_SecondRunIssuesNoSetMutation ==
    \A p \in Procs :
        SecondRun(run[p]) =>
            /\ run[p].add = <<>> /\ run[p].remove = <<>>
            /\ \A k \in 1..Len(run[p].cmds) : ~SetMutation(run[p].cmds[k])

\* C8, amended: a run that follows a successful run on an unchanged remote
\* list leaves the allow-set contents as they were: bop.py computes no
\* additions and no removals and issues no ACCEPT insertion or deletion;
\* bop-nft.py submits its flush-and-refill script again, and no step of the
\* run changes bunny_v4, nor bunny_v6 when the --ipv6 mode is the same.
C8_SecondRunKeepsSets ==
    /\ [](\A p \in Procs : (prog = "ipt" /\ SecondRun(run[p])) =>
            /\ run[p].add = <<>> /\ run[p].remove = <<>>
            /\ \A k \in 1..Len(run[p].cmds) : ~SetMutation(run[p].cmds[k]))
    /\ [][ \A p \in Procs :
             (prog = "nft" /\ InFlight(run[p]) /\ SecondRun(run[p])) =>
                 /\ nft.v4' = nft.v4
                 /\ run[p].ipv6 = run[p].prevIpv6 => nft.v6' = nft.v6 ]_vars

\* C8 witness: bop-nft.py has finished a second run on an unchanged list,
\* having submitted the set script, with a nonempty bunny_v4.
C8_Witness ==
    \E p \in Procs :
        /\ prog = "nft" /\ SecondRun(run[p]) /\ Succeeded(run[p])
        /\ ApplyDone(run[p])
        /\ nft.v4 # {}

\* C9: backend failures are fatal, stated for bop.py: when a
\* firewall-mutating command (chain creation, rule insertion, rule deletion)
\* exits with a nonzero status, it is the last command of the run, the run
\* has ended with a nonzero exit, and the snapshot was not written.
C9_BackendFailureIsFatal ==
    \A p \in Procs : \A k \in 1..Len(run[p].cmds) :
        (prog = "ipt" /\ FirewallMutation(run[p].cmds[k]) /\ run[p].cmds[k].rc # 0) =>
            /\ k = Len(run[p].cmds)
            /\ run[p].pc = "done" /\ run[p].exit # 0
            /\ ~run[p].wrote

\* C10: persisting is best-effort, both programs: a run whose firewall apply
\* step succeeded and whose snapshot write failed ends with exit status 0.
C10_PersistFailureIsNotFatal ==
    \A p \in Procs :
        (run[p].pc = "done" /\ run[p].wfail /\ run[p].err # "backend")
            => run[p].exit = 0

\* C11: --dry-run has no side effects, both programs: a run started with
\* --dry-run has executed no firewall-mutating command and has not created
\* or modified the snapshot file.
C11_DryRunNoSideEffects ==
    \A p \in Procs :
        run[p].dry =>
            /\ \A k \in 1..Len(run[p].cmds) : ~FirewallMutation(run[p].cmds[k])
            /\ ~run[p].wrote

\* C12: --dry-run renders the would-be transaction, both programs: the
\* firewall-mutating commands a dry run printed are, in order, the commands
\* that a real run started next, from the same state and on the same fetched
\* list and --ipv6 mode, has executed when it ends successfully.
C12_DryRunPrintsTheTransaction ==
    \A p \in Procs :
        (Succeeded(run[p]) /\ run[p].prevDry
           /\ run[p].body = run[p].prevBody /\ run[p].ipv6 = run[p].prevIpv6)
            => Mutations(run[p].cmds) = run[p].prevOut

\* C13: atomic snapshot write, both programs: when a run is killed while it
\* persists the snapshot, the list file holds either its complete previous
\* contents or the complete new contents, never a partial list.
C13_SnapshotWriteIsAtomic ==
    [][ \A p \in Procs :
          (run[p].pc = "persist" /\ run'[p].err = "killed")
              => snapshot' = snapshot \/ snapshot' = NewSnapshot(run[p]) ]_vars

NoDuplicates(s) == \A i, k \in 1..Len(s) : s[i] = s[k] => i = k

\* C14: the diff of bop.py's sync: for every list wanted and every set
\* previous, add and remove are disjoint, neither holds an address twice,
\* and (previous + add) - remove is the set of the wanted addresses.
C14_DiffIsExact ==
    \A p \in Procs :
        run[p].pc = "chain_exists" =>
            /\ Range(run[p].add) \cap Range(run[p].remove) = {}
            /\ NoDuplicates(run[p].add) /\ NoDuplicates(run[p].remove)
            /\ (run[p].prev \cup Range(run[p].add)) \ Range(run[p].remove)
                  = Range(run[p].v4)

\* C14 witness: the diff of a list with a repeated address, with something
\* to add, something to remove and something to keep.
C14_Witness ==
    \E p \in Procs :
        /\ run[p].pc = "chain_exists"
        /\ ~NoDuplicates(run[p].v4)
        /\ run[p].add # <<>> /\ run[p].remove # <<>>
        /\ run[p].prev \cap Range(run[p].v4) # {}

\* C15: URL fallback in fetch_bunny_ips, both programs: the URLs are
\* contacted in list order, each at most once per run; after a transport
\* error or a body without a valid address the fetch goes on to the next
\* URL; the first URL that yields a valid address determines the result and
\* no later URL is contacted; the fetch fails exactly when no URL yields a
\* valid address.
C15_UrlFallback ==
    \A p \in Procs :
        LET tries == run[p].tries
            over  == run[p].pc # "fetch"
        IN  /\ Len(tries) <= Len(EDGE_URLS)
            /\ \A k \in 1..Len(tries) :
                  /\ tries[k].url = EDGE_URLS[k]
                  /\ (over /\ tries[k].found = {} /\ k < Len(EDGE_URLS))
                        => Len(tries) > k
                  /\ tries[k].found # {} =>
                        /\ k = Len(tries)
                        /\ over /\ run[p].err # "fetch"
                        /\ run[p].body = tries[k].found
            /\ (over /\ tries # <<>>) =>
                  (run[p].err = "fetch" <=> \A k \in 1..Len(tries) : tries[k].found = {})

\* C16: the IPv6 toggle of bop-nft.py: after a successful run in block mode
\* the chain has no IPv6 accept rule and bunny_v6 is empty; after a
\* successful run in allow mode the chain has the IPv6 accept rule and
\* bunny_v6 holds the fetched IPv6 addresses; and the chain, once built,
\* has one drop rule, its last, after every accept rule.
C16_Ipv6Toggle ==
    /\ \A p \in Procs :
          (prog = "nft" /\ Succeeded(run[p])) =>
              /\ run[p].ipv6 = "block" =>
                    /\ "accept6" \notin Range(nft.chain)
                    /\ nft.v6 = {}
              /\ run[p].ipv6 = "allow" =>
                    /\ "accept6" \in Range(nft.chain)
                    /\ nft.v6 = Range(run[p].v6)
              /\ nft.chain # <<>>
    /\ nft.chain # <<>> =>
          \A k \in 1..Len(nft.chain) : nft.chain[k] = "drop" <=> k = Len(nft.chain)

\* C16 witness: a successful run in block mode that fetched an IPv6 address,
\* right after a successful run in allow mode that had put it in bunny_v6.
C16_Witness ==
    \E p \in Procs :
        /\ prog = "nft" /\ Succeeded(run[p]) /\ run[p].ipv6 = "block"
        /\ run[p].v6 # <<>>
        /\ run[p].prevOk /\ run[p].prevIpv6 = "allow"
        /\ \E a \in run[p].prevBody : ~IsV4(a)
        /\ nft.v6 = {}

\* The place of a strategy in the order JSON, XML, regex.
Rank(strategy) ==
    CASE strategy = "json" -> 1 [] strategy = "xml" -> 2 [] strategy = "regex" -> 3

\* C17: parser fall-through within one URL, both programs: on every body
\* received, the strategies that run do so in the order JSON, XML, regex; a
\* later one runs only if the earlier ones yielded no valid address; when no
\* structured parse yielded one (it failed, or was not tried, or found
\* nothing) the result is that of the regex scan of the body; and a body
\* whose addresses are all of one family makes the fetch succeed with the
\* other family's list empty.
C17_ParserFallThrough ==
    \A p \in Procs : \A k \in 1..Len(run[p].tries) :
        LET t == run[p].tries[k]
        IN  t.ok =>
              /\ \A i, j \in 1..Len(t.tried) :
                    i < j => Rank(t.tried[i]) < Rank(t.tried[j])
              /\ \A i \in 1..Len(t.tried) :
                    /\ t.tried[i] = "xml" => t.json = {}
                    /\ t.tried[i] = "regex" => t.json \cup t.xml = {}
              /\ t.json \cup t.xml = {} => t.found = t.scan
              /\ (t.found # {} /\ ((\A a \in t.found : IsV4(a))
                                   \/ (\A a \in t.found : ~IsV4(a)))) =>
                    /\ run[p].pc # "fetch" /\ run[p].err # "fetch"
                    /\ k = Len(run[p].tries)
                    /\ (\A a \in t.found : IsV4(a)) => run[p].v6 = <<>>
                    /\ (\A a \in t.found : ~IsV4(a)) => run[p].v4 = <<>>

RECURSIVE AddedTo(_, _)
\* The elements the add-element statements of script give to set name, one
\* statement after the other.
AddedTo(script, name) ==
    IF script = <<>> THEN <<>>
    ELSE (IF Head(script).op = "add element" /\ Head(script).arg = name
          THEN Head(script).elems ELSE <<>>) \o AddedTo(Tail(script), name)

\* The statements of script on set name come as one flush and then the
\* adds, each of 1 to ChunkSize elements, which together are list.
ChunkedAs(script, name, list) ==
    /\ \A i \in 1..Len(script) :
          (script[i].op = "add element" /\ script[i].arg = name) =>
              /\ Len(script[i].elems) >= 1
              /\ Len(script[i].elems) <= ChunkSize
              /\ \E f \in 1..(i - 1) :
                    script[f].op = "flush set" /\ script[f].arg = name
    /\ \A f \in 1..Len(script) :
          (script[f].op = "flush set" /\ script[f].arg = name) =>
              \A i \in 1..(f - 1) :
                  ~(script[i].op = "add element" /\ script[i].arg = name)
    /\ AddedTo(script, name) = list

\* C18: chunking in render_set_update: in every set-update script each
\* add-element statement names at most 512 addresses and at least one, the
\* statements of a set taken together give the input list, in order, each
\* address once, and the flush of a set comes before all its adds; an empty
\* list gets no add-element statement. (bunny_v6 is filled from the IPv6
\* list under --ipv6 allow and from nothing under block.)
C18_Chunking ==
    \A p \in Procs : \A k \in 1..Len(run[p].cmds) :
        (prog = "nft" /\ HasSetStmt(run[p].cmds[k])) =>
            /\ ChunkedAs(run[p].cmds[k].script, "bunny_v4", run[p].v4)
            /\ ChunkedAs(run[p].cmds[k].script, "bunny_v6",
                         IF run[p].ipv6 = "allow" THEN run[p].v6 ELSE <<>>)

\* C18 witness: a list of more than two chunks, the last one shorter, was
\* rendered in three add-element statements and applied.
C18_Witness ==
    \E p \in Procs : \E k \in 1..Len(run[p].cmds) :
        /\ prog = "nft" /\ HasSetStmt(run[p].cmds[k]) /\ run[p].cmds[k].rc = 0
        /\ Len(run[p].v4) > ChunkSize + ChunkSize
        /\ Len(run[p].v4) < ChunkSize + ChunkSize + ChunkSize
        /\ Cardinality({ i \in 1..Len(run[p].cmds[k].script) :
                            /\ run[p].cmds[k].script[i].op = "add element"
                            /\ run[p].cmds[k].script[i].arg = "bunny_v4" }) > 2
        /\ nft.v4 = Range(run[p].v4)

\* The fetch of run r has returned a value to main.
Returned(r) ==
    /\ r.pc # "fetch" /\ r.err # "fetch"
    /\ r.tries # <<>>

\* C19: canonical order of the fetch result, both programs: the IPv4 list
\* returned holds no address twice, is strictly ascending by the tuple of
\* its octets, and holds exactly the valid IPv4 addresses among the
\* candidates accepted from the winning body.
C19_CanonicalOrder ==
    \A p \in Procs :
        Returned(run[p]) =>
            LET v4    == run[p].v4
                found == run[p].tries[Len(run[p].tries)].found
            IN  /\ NoDuplicates(v4)
                /\ \A i \in 1..(Len(v4) - 1) : TupleLess(v4[i], v4[i + 1])
                /\ Range(v4) = { a \in found : IsV4(a) }

\* C19 witness: the fetch has returned 10.0.0.9 before 10.0.0.10, which a
\* sort of the strings would put the other way round.
C19_Witness ==
    \E p \in Procs :
        /\ Returned(run[p])
        /\ run[p].v4 = << <<10, 0, 0, 9>>, <<10, 0, 0, 10>> >>

\* The IPv4 addresses the firewall lets through to the protected ports.
AllowedV4 ==
    IF prog = "ipt"
    THEN { a \in V4 : HasAccept(a) }
    ELSE IF "accept4" \in Range(nft.chain) THEN { a \in nft.v4 : IsV4(a) } ELSE {}

\* C20: no lockout by an empty allow-set, both programs: no successful run
\* leaves the drop rule in force with no IPv4 address allowed.
C20_NoLockout ==
    \A p \in Procs :
        (Succeeded(run[p]) /\ DropInForce) => AllowedV4 # {}

\* The positions of the chain's rules with target j.
RulesTo(j) == { k \in 1..Len(ipt.rules) : ipt.rules[k].j = j }

\* The managed chain has one unconditional DROP, as its last rule, after
\* every ACCEPT rule, and no address has two ACCEPT rules.
ChainShape ==
    /\ ipt.exists
    /\ RulesTo("DROP") = {Len(ipt.rules)}
    /\ ipt.rules[Len(ipt.rules)] = DropRule
    /\ \A i \in RulesTo("ACCEPT") : i < Len(ipt.rules)
    /\ \A i, k \in RulesTo("ACCEPT") : ipt.rules[i].s = ipt.rules[k].s => i = k

\* C21: chain shape of bop.py, with at most one run in flight and from a
\* chain without duplicate rules: after every successful run the managed
\* chain has exactly one unconditional DROP rule, it is the last rule, every
\* ACCEPT rule precedes it, no address has more than one ACCEPT rule, and
\* INPUT has exactly one jump to the chain.
C21_ChainShape ==
    \A p \in Procs :
        (prog = "ipt" /\ Succeeded(run[p])) => ChainShape /\ ipt.jumps = 1

\* C21 witness: a successful run on a chain that an earlier successful run
\* had built: it has deleted the old DROP and appended it again, below two
\* ACCEPT rules.
C21_Witness ==
    \E p \in Procs :
        /\ prog = "ipt" /\ Succeeded(run[p]) /\ run[p].prevOk
        /\ \E k \in 1..Len(run[p].cmds) :
              /\ run[p].cmds[k].op = "-D" /\ run[p].cmds[k].rule = DropRule
              /\ run[p].cmds[k].rc = 0
        /\ Cardinality(RulesTo("ACCEPT")) >= 2
        /\ ChainShape /\ ipt.jumps = 1

\* Both runs have exited successfully, from the same fetched list and the
\* same snapshot.
BothSucceeded ==
    /\ prog = "ipt"
    /\ \A p \in Procs : Succeeded(run[p])
    /\ run[1].v4 = run[2].v4
    /\ run[1].prev = run[2].prev

\* C22: overlapping runs of bop.py, as the claim states it: when two runs
\* with the same fetched set and the same snapshot interleave command by
\* command and both exit successfully, the final chain is a single run's: no
\* address has two ACCEPT rules and exactly one DROP rule is present, last.
C22_OverlapEqualsSingleRun == BothSucceeded => ChainShape

\* C22, as the code has it: two such runs leave a chain that filters as a
\* single run's does (its last rule is a DROP, every ACCEPT rule precedes
\* every DROP rule, every address fetched and not in the snapshot has an
\* ACCEPT rule), whatever the number of copies of each rule.
C22_OverlapFiltersAsSingleRun ==
    BothSucceeded =>
        /\ ipt.exists /\ ipt.jumps >= 1
        /\ ipt.rules # <<>> /\ ipt.rules[Len(ipt.rules)] = DropRule
        /\ \A i \in RulesTo("ACCEPT"), k \in RulesTo("DROP") : i < k
        /\ \A a \in Range(run[1].v4) \ run[1].prev : HasAccept(a)

\* Both runs added and removed rules, and the chain they leave holds an
\* address twice and two DROP rules.
C22_Witness ==
    /\ BothSucceeded
    /\ \A p \in Procs : run[p].add # <<>> /\ run[p].remove # <<>>
    /\ Cardinality(RulesTo("DROP")) >= 2
    /\ \E i, k \in RulesTo("ACCEPT") : i # k /\ ipt.rules[i].s = ipt.rules[k].s
    /\ C22_OverlapFiltersAsSingleRun

====
